---- MODULE Spec2Model ----
(***************************************************************************)
(* A model of the recycling tree (src/src/core.rs, map.rs, node.rs,        *)
(* tree.rs, ancestors.rs): a reference-counted tree whose root hosts the   *)
(* free list, used concurrently by a fixed set of threads.                 *)
(*                                                                         *)
(* Every handler is cut into the steps at which it touches shared memory   *)
(* (an atomic load, fetch_add, fetch_sub, compare_exchange, a lock         *)
(* acquisition), so that threads interleave as the code lets them.         *)
(*                                                                         *)
(* Records.  The only allocation sites are Tree::with_logger (the root)    *)
(* and the new_value closure of Node::ensure_child.  That closure starts   *)
(* with `this.root().unwrap()` (core.rs:219), and NodeInner::root()        *)
(* (core.rs:393-395) is None for a record without ancestors, that is, for  *)
(* the root.  A miss on the root therefore panics before anything is       *)
(* allocated, and since the root is the only record there is, no other     *)
(* record is ever allocated (OnlyRootRecord below).  The state is          *)
(* therefore the state of the root record; the branches of the code that   *)
(* need a non-root record (a hit in ensure_child, push_on_free_list, the   *)
(* parent part of drop_without_free_list, a non-empty drain) have guards   *)
(* that no reachable state satisfies, which DeadBranches states.           *)
(***************************************************************************)
EXTENDS Integers, FiniteSets, Sequences, TLC

\* Number of threads using the tree.
NumThreads == 2
\* Handles to the root a thread may own at once.
MaxHandles == 1
\* Values passed to ensure_child are 0..MaxValue.
MaxValue == 2

Threads == 1..NumThreads
Values == 0..MaxValue

\* core.rs:47
GC_COUNT_THRESHOLD == 300
\* ptr::null_mut()
NULL_PTR == 0
\* NodeInner::DANGLING_PTR = NonNull::dangling(): the alignment of NodeInner
DANGLING_PTR == 8

None == "None"
Panic == "panic"
NoCall == "none"
\* A local (a pointer, a value) of a call the thread is not in.
NoLocal == -1
\* The RwLock of a children map with no guard out.
Unlocked == <<0, "unlocked">>

\* `(&value).into()`: the key derived from a value (K and the conversion are
\* the caller's; two values share each key here).
Key(v) == v \div 2

Keys == {Key(v) : v \in Values}

(***************************************************************************)
(* The adaptive child map (map.rs): <<"Empty">>, <<"One", v>> or           *)
(* <<"Map", f>> with f a function from a finite set of keys to values.     *)
(* Values stored in the map are child records, named by their value;       *)
(* KeyOf(node) is the key_from_value closure, `|node| node.key()`.         *)
(***************************************************************************)
MapEmpty == <<"Empty">>

\* The record of a child whose `value` field is v.
Node(v) == ToString(v)

KeyOf(node) == Key(CHOOSE v \in Values : Node(v) = node)

\* Map::get
MapGet(m, key) ==
    CASE m[1] = "One" /\ key = KeyOf(m[2]) -> m[2]
      [] m[1] = "Map" -> IF key \in DOMAIN m[2] THEN m[2][key] ELSE None
      [] OTHER -> None

\* What a caller's closure does when it is called: it yields, or it panics.
Ok == "ok"
Closures == {Ok, Panic}

\* Map::get_or_insert_with.  kfv and eq say whether the key_from_value
\* closure and the `==` of K panic when they are called, collide says
\* whether the hash of the key (the Hash of K is the caller's) sends the
\* lookup of the HashMap to an entry under another key, nv is what the
\* new_value closure yields when it is called: a value, or Panic.  The
\* result is the map as the call leaves it, what the call returns (Panic: a
\* panic unwinds out of the call) and whether new_value was called.
MapGetOrInsertWith(m, key, kfv, eq, collide, nv) ==
    CASE m[1] = "Empty" ->
            \* map.rs:43: new_value() runs before the assignment.
            IF nv = Panic THEN [map |-> m, ret |-> Panic, made |-> TRUE]
            ELSE [map |-> <<"One", nv>>, ret |-> nv, made |-> TRUE]
      [] m[1] = "One" ->
            LET one == m[2]
                one_key == KeyOf(one)
            IN  \* map.rs:50: self.inner is Empty from here on; a panic of
                \* key_from_value (55) or of `==` (57) drops `one`.
                IF kfv = Panic \/ eq = Panic
                THEN [map |-> MapEmpty, ret |-> Panic, made |-> FALSE]
                ELSE IF key = one_key
                THEN [map |-> <<"One", one>>, ret |-> one, made |-> FALSE]
                \* map.rs:64-69: `map.insert(one_key, one)` on the fresh
                \* map yields None, and `.unwrap()` of None panics.
                ELSE [map |-> <<"Map", [k \in {one_key} |-> one]>>,
                      ret |-> Panic, made |-> FALSE]
      [] OTHER ->
            \* map.rs:75: HashMap::entry calls `==` on every entry the
            \* lookup probes: the entry under the key if there is one, and
            \* any entry under another key that the hash collides with.  A
            \* panic of `==` unwinds before new_value and before any insert.
            LET compares == key \in DOMAIN m[2]
                               \/ (collide /\ DOMAIN m[2] # {})
            IN  IF compares /\ eq = Panic
                THEN [map |-> m, ret |-> Panic, made |-> FALSE]
                ELSE IF key \in DOMAIN m[2]
                THEN [map |-> m, ret |-> m[2][key], made |-> FALSE]
                ELSE IF nv = Panic
                THEN [map |-> m, ret |-> Panic, made |-> TRUE]
                ELSE [map |-> <<"Map", [k \in DOMAIN m[2] \cup {key} |->
                                          IF k = key THEN nv ELSE m[2][k]]>>,
                      ret |-> nv, made |-> TRUE]

\* Map::remove: the map as the call leaves it and what the call returns.
MapRemove(m, key) ==
    CASE m[1] = "One" /\ key = KeyOf(m[2]) -> [map |-> MapEmpty, ret |-> m[2]]
      [] m[1] = "Map" ->
            IF key \in DOMAIN m[2]
            THEN [map |-> <<"Map", [k \in DOMAIN m[2] \ {key} |-> m[2][k]]>>,
                  ret |-> m[2][key]]
            ELSE [map |-> m, ret |-> None]
      [] OTHER -> [map |-> m, ret |-> None]

VARIABLES
    allocated,   \* the root record's heap cell exists
    ancestors,   \* root.ancestors
    children,    \* root.children, the map the RwLock guards
    lock,        \* root.children's RwLock: Unlocked, or <<thread, mode>>
    refcount,    \* root.refcount
    next_free,   \* root.next_free: the head word of the free list
    free_count,  \* root.free_count
    tree,        \* the Tree value: "alive", "dropping" (in Drop for Tree), "dropped"
    handles,     \* handles[t]: Node handles to the root that thread t owns
    pc,          \* pc[t]: where thread t is
    op,          \* op[t]: the call thread t is in
    borrow,      \* borrow[t]: the call thread t is in was made through &Tree
    arg,         \* arg[t]: the value thread t passed to ensure_child
                 \* (under MapSpec: the Map call thread t made)
    ptr,         \* ptr[t]: swap_free_list_and_gc's `ptr`
    head,        \* head[t]: swap_free_list_and_gc's `head`
    ret,         \* ret[t]: what thread t's ensure_child returns
                 \* (under MapSpec: what thread t's Map call returned)
    log,         \* the Logger's events, <<"new", id>> and <<"drop", id>>
    results,     \* <<key, result>> of every ensure_child call that has returned
    gcDone       \* a gc() call has returned

vars == <<allocated, ancestors, children, lock, refcount, next_free, free_count,
          tree, handles, pc, op, borrow, arg, ptr, head, ret, log, results,
          gcDone>>

Idle(t) == pc[t] = "idle"
Quiescent == \A t \in Threads : Idle(t)

\* NodeInner::root
NodeRoot == IF ancestors = None THEN None ELSE ancestors.root

\* The new_value closure of ensure_child: `this.root().unwrap()` comes first.
NewValue == IF NodeRoot = None THEN Panic ELSE "child"

\* `head as usize & !1`
Unmask(p) == p - (p % 2)

\* Tree::with_logger
Init ==
    /\ allocated = TRUE
    /\ ancestors = None
    /\ children = MapEmpty
    /\ lock = Unlocked
    /\ refcount = 1
    /\ next_free = DANGLING_PTR
    /\ free_count = 0
    /\ tree = "alive"
    /\ handles = [t \in Threads |-> 0]
    /\ pc = [t \in Threads |-> "idle"]
    /\ op = [t \in Threads |-> NoCall]
    /\ borrow = [t \in Threads |-> FALSE]
    /\ arg = [t \in Threads |-> NoLocal]
    /\ ptr = [t \in Threads |-> NoLocal]
    /\ head = [t \in Threads |-> NoLocal]
    /\ ret = [t \in Threads |-> NoCall]
    /\ log = << <<"new", "root">> >>
    /\ results = {}
    /\ gcDone = FALSE

\* A call is made on a Node the caller can reach: the tree's root, borrowed
\* through &Tree ("tree"), or a handle the thread owns ("own").
CanUse(t, via) ==
    \/ via = "tree" /\ tree = "alive"
    \/ via = "own" /\ handles[t] > 0

\* The call of thread t is over: the thread is idle again and its locals
\* are gone.
Finish(t) ==
    /\ pc' = [pc EXCEPT ![t] = "idle"]
    /\ op' = [op EXCEPT ![t] = NoCall]
    /\ borrow' = [borrow EXCEPT ![t] = FALSE]
    /\ arg' = [arg EXCEPT ![t] = NoLocal]
    /\ ptr' = [ptr EXCEPT ![t] = NoLocal]
    /\ head' = [head EXCEPT ![t] = NoLocal]
    /\ ret' = [ret EXCEPT ![t] = NoCall]

\* ensure_child, gc() or maybe_gc() is back in its caller, which goes on.
Return(t) ==
    /\ pc[t] = "return"
    /\ Finish(t)
    /\ UNCHANGED <<allocated, ancestors, children, lock, refcount, next_free,
                   free_count, tree, handles, log, results, gcDone>>

(***************************************************************************)
(* Node::ensure_child (core.rs:190-234)                                    *)
(***************************************************************************)
\* core.rs:190-191: the call; the caller is inside ensure_child from here.
EcCall(t, v, via) ==
    /\ Idle(t)
    /\ CanUse(t, via)
    /\ pc' = [pc EXCEPT ![t] = "ec_lock"]
    /\ op' = [op EXCEPT ![t] = "ensure_child"]
    /\ borrow' = [borrow EXCEPT ![t] = (via = "tree")]
    /\ arg' = [arg EXCEPT ![t] = v]
    /\ UNCHANGED <<allocated, ancestors, children, lock, refcount, next_free,
                   free_count, tree, handles, ptr, head, ret, log, results, gcDone>>

\* core.rs:192: `this.children.upgradable_read()`, which waits while
\* another upgradable or exclusive guard is held.
EcLock(t) ==
    /\ pc[t] = "ec_lock"
    /\ lock = Unlocked
    /\ lock' = <<t, "upgradable">>
    /\ pc' = [pc EXCEPT ![t] = "ec_get"]
    /\ UNCHANGED <<allocated, ancestors, children, refcount, next_free,
                   free_count, tree, handles, op, borrow, arg, ptr, head, ret,
                   log, results, gcDone>>

\* core.rs:193-194: the key and the lookup under the read guard.  Only the
\* miss can happen (DeadBranches): the map never holds a child.
EcGet(t) ==
    /\ pc[t] = "ec_get"
    /\ MapGet(children, Key(arg[t])) = None
    /\ pc' = [pc EXCEPT ![t] = "ec_upgrade"]
    /\ UNCHANGED <<allocated, ancestors, children, lock, refcount, next_free,
                   free_count, tree, handles, op, borrow, arg, ptr, head, ret, log,
                   results, gcDone>>

\* core.rs:214: RwLockUpgradableReadGuard::upgrade (no plain reader exists).
EcUpgrade(t) ==
    /\ pc[t] = "ec_upgrade"
    /\ lock = <<t, "upgradable">>
    /\ lock' = <<t, "write">>
    /\ pc' = [pc EXCEPT ![t] = "ec_insert"]
    /\ UNCHANGED <<allocated, ancestors, children, refcount, next_free, free_count,
                   tree, handles, op, borrow, arg, ptr, head, ret, log, results, gcDone>>

\* core.rs:215-230: get_or_insert_with under the write guard.  new_value
\* panics (core.rs:219), the panic unwinds through get_or_insert_with and
\* ensure_child, and the write guard is released by the unwinding; nothing
\* is logged and the caller gets no handle.
EcInsert(t) ==
    /\ pc[t] = "ec_insert"
    /\ LET r == MapGetOrInsertWith(children, Key(arg[t]), Ok, Ok, FALSE, NewValue)
       IN  /\ r.ret = Panic
           /\ children' = r.map
           /\ ret' = [ret EXCEPT ![t] = r.ret]
           /\ results' = results \cup {<<Key(arg[t]), r.ret>>}
    /\ lock' = Unlocked
    /\ pc' = [pc EXCEPT ![t] = "return"]
    /\ UNCHANGED <<allocated, ancestors, refcount, next_free, free_count, tree,
                   handles, op, borrow, arg, ptr, head, log, gcDone>>

(***************************************************************************)
(* Clone for Node (core.rs:244-248)                                        *)
(***************************************************************************)
\* A clone that hands out a handle without counting it.
CloneRefcount_Uncounted(rc) == rc

\* `this.refcount.fetch_add(1, Relaxed)`
CloneRefcount(rc) == rc + 1

Clone(t, via) ==
    /\ Idle(t)
    /\ CanUse(t, via)
    /\ handles[t] < MaxHandles
    /\ refcount' = CloneRefcount(refcount)
    /\ handles' = [handles EXCEPT ![t] = @ + 1]
    /\ UNCHANGED <<allocated, ancestors, children, lock, next_free, free_count,
                   tree, pc, op, borrow, arg, ptr, head, ret, log, results,
                   gcDone>>

(***************************************************************************)
(* Drop for Node (core.rs:365-378) and drop_without_free_list              *)
(* (core.rs:257-300)                                                       *)
(***************************************************************************)
\* A drop that tests the value fetch_sub wrote instead of the one it read.
LastReference_NewValue(old) == old = 0

\* `this.refcount.fetch_sub(1, Release) != 1` returns; old is the value
\* fetch_sub read.
LastReference(old) == old = 1

\* core.rs:374: `this.root().is_none()` sends the last reference to
\* drop_without_free_list; only a record with ancestors goes to
\* push_on_free_list, and there is none (DeadBranches).
SkipsFreeList == NodeRoot = None

\* Dropping a handle the thread owns.
DropHandle(t) ==
    /\ Idle(t)
    /\ handles[t] > 0
    /\ handles' = [handles EXCEPT ![t] = @ - 1]
    /\ refcount' = refcount - 1
    /\ LastReference(refcount) => SkipsFreeList
    /\ IF LastReference(refcount)
       THEN /\ pc' = [pc EXCEPT ![t] = "dwfl"]
            /\ op' = [op EXCEPT ![t] = "drop"]
            /\ UNCHANGED <<borrow, arg, ptr, head, ret>>
       ELSE UNCHANGED <<pc, op, borrow, arg, ptr, head, ret>>
    /\ UNCHANGED <<allocated, ancestors, children, lock, next_free, free_count,
                   tree, log, results, gcDone>>

\* core.rs:260-285 for a record without ancestors: no parent to unlink from,
\* the fence, `ancestors.take()` of None, and Logger::log_drop.
DwflLog(t) ==
    /\ pc[t] = "dwfl"
    /\ ancestors = None
    /\ log' = Append(log, <<"drop", "root">>)
    /\ pc' = [pc EXCEPT ![t] = "dwfl_free"]
    /\ UNCHANGED <<allocated, ancestors, children, lock, refcount, next_free,
                   free_count, tree, handles, op, borrow, arg, ptr, head, ret,
                   results, gcDone>>

\* core.rs:286-298: UnsafeNode::drop frees the record; there is no parent.
DwflFree(t) ==
    /\ pc[t] = "dwfl_free"
    /\ allocated' = FALSE
    /\ Finish(t)
    /\ UNCHANGED <<ancestors, children, lock, refcount, next_free, free_count,
                   tree, handles, log, results, gcDone>>

(***************************************************************************)
(* Tree::maybe_gc, Tree::gc, Drop for Tree and swap_free_list_and_gc       *)
(* (core.rs:98-178)                                                        *)
(***************************************************************************)
\* A maybe_gc whose comparison is the wrong way round.
MaybeGcTriggers_Below == free_count < GC_COUNT_THRESHOLD

\* core.rs:99
MaybeGcTriggers == free_count > GC_COUNT_THRESHOLD

\* core.rs:105-107
Gc(t) ==
    /\ Idle(t)
    /\ tree = "alive"
    /\ op' = [op EXCEPT ![t] = "gc"]
    /\ borrow' = [borrow EXCEPT ![t] = TRUE]
    /\ ptr' = [ptr EXCEPT ![t] = DANGLING_PTR]
    /\ pc' = [pc EXCEPT ![t] = "swap_load"]
    /\ UNCHANGED <<allocated, ancestors, children, lock, refcount, next_free,
                   free_count, tree, handles, arg, head, ret, log, results, gcDone>>

\* core.rs:98: the call.
MaybeGcCall(t) ==
    /\ Idle(t)
    /\ tree = "alive"
    /\ op' = [op EXCEPT ![t] = "maybe_gc"]
    /\ borrow' = [borrow EXCEPT ![t] = TRUE]
    /\ pc' = [pc EXCEPT ![t] = "maybe_gc"]
    /\ UNCHANGED <<allocated, ancestors, children, lock, refcount, next_free,
                   free_count, tree, handles, arg, ptr, head, ret, log, results, gcDone>>

\* core.rs:99-101: the load of free_count and the comparison.
MaybeGcCheck(t) ==
    /\ pc[t] = "maybe_gc"
    /\ IF MaybeGcTriggers
       THEN /\ ptr' = [ptr EXCEPT ![t] = DANGLING_PTR]
            /\ pc' = [pc EXCEPT ![t] = "swap_load"]
       ELSE /\ pc' = [pc EXCEPT ![t] = "return"]
            /\ UNCHANGED ptr
    /\ UNCHANGED <<allocated, ancestors, children, lock, refcount, next_free,
                   free_count, tree, handles, op, borrow, arg, head, ret, log,
                   results, gcDone>>

\* core.rs:175-176: Drop for Tree has the Tree by value, so no call made
\* through &Tree is in progress.
TreeDrop(t) ==
    /\ Idle(t)
    /\ tree = "alive"
    /\ \A u \in Threads : ~borrow[u]
    /\ tree' = "dropping"
    /\ op' = [op EXCEPT ![t] = "tree_drop"]
    /\ ptr' = [ptr EXCEPT ![t] = NULL_PTR]
    /\ pc' = [pc EXCEPT ![t] = "swap_load"]
    /\ UNCHANGED <<allocated, ancestors, children, lock, refcount, next_free,
                   free_count, handles, borrow, arg, head, ret, log, results, gcDone>>

\* core.rs:115
SwapLoad(t) ==
    /\ pc[t] = "swap_load"
    /\ head' = [head EXCEPT ![t] = next_free]
    /\ pc' = [pc EXCEPT ![t] = "swap_loop"]
    /\ UNCHANGED <<allocated, ancestors, children, lock, refcount, next_free,
                   free_count, tree, handles, op, borrow, arg, ptr, ret, log,
                   results, gcDone>>

\* swap_free_list_and_gc returns: to gc() or maybe_gc(), which return, or to
\* Drop for Tree, which goes on to drop its `root` field.
SwapReturn(t) ==
    /\ pc' = [pc EXCEPT ![t] = IF op[t] = "tree_drop" THEN "drop_root" ELSE "return"]
    /\ gcDone' = (gcDone \/ op[t] = "gc")

\* core.rs:121-131: `head == ptr` returns; else the lock bit is unmasked.
SwapLoop(t) ==
    /\ pc[t] = "swap_loop"
    /\ IF head[t] = ptr[t]
       THEN SwapReturn(t) /\ UNCHANGED head
       ELSE /\ head' = [head EXCEPT ![t] = Unmask(head[t])]
            /\ pc' = [pc EXCEPT ![t] = "swap_cas"]
            /\ UNCHANGED gcDone
    /\ UNCHANGED <<allocated, ancestors, children, lock, refcount, next_free,
                   free_count, tree, handles, op, borrow, arg, ptr, ret, log,
                   results>>

\* core.rs:136-147: compare_exchange_weak(head, ptr).
SwapCas(t) ==
    /\ pc[t] = "swap_cas"
    /\ IF next_free = head[t]
       THEN /\ next_free' = ptr[t]
            /\ pc' = [pc EXCEPT ![t] = "drain"]
            /\ UNCHANGED head
       ELSE /\ head' = [head EXCEPT ![t] = next_free]
            /\ pc' = [pc EXCEPT ![t] = "swap_loop"]
            /\ UNCHANGED next_free
    /\ UNCHANGED <<allocated, ancestors, children, lock, refcount, free_count,
                   tree, handles, op, borrow, arg, ptr, ret, log, results,
                   gcDone>>

\* compare_exchange_weak may fail though the word holds the expected value.
SwapCasWeak(t) ==
    /\ pc[t] = "swap_cas"
    /\ head' = [head EXCEPT ![t] = next_free]
    /\ pc' = [pc EXCEPT ![t] = "swap_loop"]
    /\ UNCHANGED <<allocated, ancestors, children, lock, refcount, next_free,
                   free_count, tree, handles, op, borrow, arg, ptr, ret, log,
                   results, gcDone>>

\* core.rs:149-153: the captured chain is empty.
Drain(t) ==
    /\ pc[t] = "drain"
    /\ head[t] = DANGLING_PTR
    /\ SwapReturn(t)
    /\ UNCHANGED <<allocated, ancestors, children, lock, refcount, next_free,
                   free_count, tree, handles, op, borrow, arg, ptr, head, ret, log,
                   results>>

\* Drop for Tree drops its `root` field: Drop for Node on the tree's handle.
TreeDropRoot(t) ==
    /\ pc[t] = "drop_root"
    /\ tree' = "dropped"
    /\ refcount' = refcount - 1
    /\ LastReference(refcount) => SkipsFreeList
    /\ IF LastReference(refcount)
       THEN /\ pc' = [pc EXCEPT ![t] = "dwfl"]
            /\ UNCHANGED <<op, borrow, arg, ptr, head, ret>>
       ELSE Finish(t)
    /\ UNCHANGED <<allocated, ancestors, children, lock, next_free, free_count,
                   handles, log, results, gcDone>>

Next ==
    \E t \in Threads :
        \/ \E v \in Values, via \in {"tree", "own"} : EcCall(t, v, via)
        \/ EcLock(t)
        \/ EcGet(t)
        \/ EcUpgrade(t)
        \/ EcInsert(t)
        \/ Return(t)
        \/ \E via \in {"tree", "own"} : Clone(t, via)
        \/ DropHandle(t)
        \/ DwflLog(t)
        \/ DwflFree(t)
        \/ Gc(t)
        \/ MaybeGcCall(t)
        \/ MaybeGcCheck(t)
        \/ TreeDrop(t)
        \/ SwapLoad(t)
        \/ SwapLoop(t)
        \/ SwapCas(t)
        \/ SwapCasWeak(t)
        \/ Drain(t)
        \/ TreeDropRoot(t)

Spec == Init /\ [][Next]_vars

(***************************************************************************)
(* Scheduling: a thread that is inside a call keeps taking steps, a        *)
(* compare_exchange_weak does not fail spuriously for ever, and a thread   *)
(* that waits for the children lock gets it if it is free again and again  *)
(* (parking_lot hands a lock over to a waiter that has waited long).       *)
(* Nothing makes an idle thread start a call.  Each of these steps moves   *)
(* the thread's pc, so fairness is stated on the steps that change pc.     *)
(***************************************************************************)
ThreadStep(t) ==
    \/ EcLock(t)
    \/ EcGet(t)
    \/ EcUpgrade(t)
    \/ EcInsert(t)
    \/ Return(t)
    \/ DwflLog(t)
    \/ DwflFree(t)
    \/ MaybeGcCheck(t)
    \/ SwapLoad(t)
    \/ SwapLoop(t)
    \/ SwapCas(t)
    \/ SwapCasWeak(t)
    \/ Drain(t)
    \/ TreeDropRoot(t)

Fairness ==
    \A t \in Threads :
        WF_pc(ThreadStep(t)) /\ SF_pc(SwapCas(t)) /\ SF_pc(EcLock(t))

FairSpec == Spec /\ Fairness

\* Thread t is inside ensure_child and waits in upgradable_read.
WaitsForLock(t) == pc[t] = "ec_lock" /\ lock # Unlocked

\* A thread inside a call can take its next step, or it waits for the
\* children lock and the thread that holds the guard can take its own.
NoDeadlock ==
    \A t \in Threads :
        ~Idle(t) =>
            \/ ENABLED ThreadStep(t)
            \/ /\ WaitsForLock(t)
               /\ \E u \in Threads \ {t} : lock[1] = u /\ ENABLED ThreadStep(u)

\* Every call ends, by returning or by unwinding.
EveryCallEnds == \A t \in Threads : ~Idle(t) ~> Idle(t)

(***************************************************************************)
(* The child map on its own (map.rs): the Map of a fresh record, which     *)
(* starts Empty, is driven through get, get_or_insert_with and remove      *)
(* with every key, every outcome of the caller's closures and every value  *)
(* whose key is the key asked for.  A call is one step: the callers hold   *)
(* the RwLock around it.  arg[t] is the last call, with the map before     *)
(* it; op[t] is its name; ret[t] is what it returned, whether new_value    *)
(* was called and the map after it.                                        *)
(***************************************************************************)
MapCall(t, name, call, r) ==
    /\ children' = r.map
    /\ op' = [u \in Threads |-> IF u = t THEN name ELSE NoCall]
    /\ arg' = [u \in Threads |-> IF u = t THEN call ELSE NoLocal]
    /\ ret' = [u \in Threads |-> IF u = t THEN r ELSE NoCall]
    /\ UNCHANGED <<allocated, ancestors, lock, refcount, next_free, free_count,
                   tree, handles, pc, borrow, ptr, head, log, results,
                   gcDone>>

Get(t, key) ==
    /\ Idle(t)
    /\ MapCall(t, "get", [key |-> key, kfv |-> Ok, eq |-> Ok, collide |-> FALSE,
                   nv |-> None, before |-> children],
                  [map |-> children, ret |-> MapGet(children, key),
                   made |-> FALSE])

\* np says whether new_value panics when it is called, v is the value of the
\* node it yields otherwise.
GetOrInsertWith(t, key, kfv, eq, collide, np, v) ==
    LET nv == IF np = Panic THEN Panic ELSE Node(v)
    IN  /\ Idle(t)
        /\ MapCall(t, "get_or_insert_with",
                      [key |-> key, kfv |-> kfv, eq |-> eq,
                       collide |-> collide, nv |-> nv, before |-> children],
                      MapGetOrInsertWith(children, key, kfv, eq, collide, nv))

Remove(t, key) ==
    LET r == MapRemove(children, key)
    IN  /\ Idle(t)
        /\ MapCall(t, "remove", [key |-> key, kfv |-> Ok, eq |-> Ok, collide |-> FALSE,
                       nv |-> None, before |-> children],
                      [map |-> r.map, ret |-> r.ret, made |-> FALSE])

MapNext ==
    \E t \in Threads, key \in Keys :
        \/ Get(t, key)
        \/ \E kfv \in Closures, eq \in Closures, collide \in BOOLEAN,
              np \in Closures, v \in {w \in Values : Key(w) = key} :
              GetOrInsertWith(t, key, kfv, eq, collide, np, v)
        \/ Remove(t, key)

MapSpec == Init /\ [][MapNext]_vars

\* The calls that have been made, with what they returned.
MapCalls == {t \in Threads : op[t] # NoCall}

\* The finite map from keys to values that a Map represents.
Contents(m) ==
    CASE m[1] = "Empty" -> [k \in {} |-> None]
      [] m[1] = "One" -> [k \in {KeyOf(m[2])} |-> m[2]]
      [] OTHER -> m[2]

SameContents(f, g) == DOMAIN f = DOMAIN g /\ \A k \in DOMAIN f : f[k] = g[k]

\* The three calls on a finite map f from keys to values.
AbsGet(f, key) == IF key \in DOMAIN f THEN f[key] ELSE None

AbsGetOrInsertWith(f, key, nv) ==
    IF key \in DOMAIN f THEN [map |-> f, ret |-> f[key], made |-> FALSE]
    ELSE [map |-> [k \in DOMAIN f \cup {key} |-> IF k = key THEN nv ELSE f[k]],
          ret |-> nv, made |-> TRUE]

AbsRemove(f, key) ==
    IF key \in DOMAIN f
    THEN [map |-> [k \in DOMAIN f \ {key} |-> f[k]], ret |-> f[key]]
    ELSE [map |-> f, ret |-> None]

\* A Map holds each value under the key that the value gives.
MapKeysAgree ==
    LET f == Contents(children) IN \A k \in DOMAIN f : KeyOf(f[k]) = k

(***************************************************************************)
(* What keeps the model to the root record                                 *)
(***************************************************************************)
TypeOK ==
    /\ allocated \in BOOLEAN
    /\ ancestors = None
    /\ refcount \in Nat
    /\ next_free \in {NULL_PTR, DANGLING_PTR}
    /\ free_count \in Nat
    /\ tree \in {"alive", "dropping", "dropped"}
    /\ handles \in [Threads -> 0..MaxHandles]
    /\ lock = Unlocked \/ lock[1] \in Threads

\* No record but the root is ever allocated: every on_create is the root's,
\* and the root's map never holds a child.
OnlyRootRecord ==
    /\ children = MapEmpty
    /\ \A i \in DOMAIN log : log[i][2] = "root"

\* The branches left out of the actions are never taken: the lookup of
\* ensure_child misses, new_value panics, the record whose last reference
\* went has no root(), free_count is at most the threshold, and a captured
\* free list is empty.
DeadBranches ==
    \A t \in Threads :
        /\ pc[t] = "ec_get" => MapGet(children, Key(arg[t])) = None
        /\ pc[t] = "ec_insert" => NewValue = Panic
        /\ pc[t] \in {"dwfl", "dwfl_free"} => SkipsFreeList
        /\ pc[t] = "drain" => head[t] = DANGLING_PTR
        /\ ~MaybeGcTriggers

\* The debug assertions of core.rs:120, 135, 275, 276.
DebugAssertions ==
    \A t \in Threads :
        /\ pc[t] = "swap_loop" => head[t] # NULL_PTR
        /\ pc[t] = "swap_cas" => head[t] # ptr[t]
        /\ pc[t] = "dwfl" => refcount = 0 /\ next_free = NULL_PTR

\* No thread touches the root record after it has been freed.
NoUseAfterFree ==
    \A t \in Threads :
        (~Idle(t) \/ handles[t] > 0 \/ tree # "dropped") => allocated

\* push_on_free_list never runs, so the head word is DANGLING or null, the
\* lock bit (the low bit of the head word) is never set and free_count is
\* never written.
FreeListNeverUsed ==
    /\ next_free \in {DANGLING_PTR, NULL_PTR}
    /\ Unmask(next_free) = next_free
    /\ free_count = 0

\* Every gc() call returns at `head == ptr` (core.rs:121-127): when it is
\* back in its caller the head word is still DANGLING, no record but the
\* root has been destroyed, and no key that was asked for has a record.
GcFindsNothing ==
    \A t \in Threads :
        (pc[t] = "return" /\ op[t] = "gc") =>
            /\ next_free = DANGLING_PTR
            /\ \A i \in DOMAIN log : log[i][1] = "drop" => log[i][2] = "root"
            /\ \A r \in results : MapGet(children, r[1]) = None

\* Every ensure_child call that is over ended in the panic of core.rs:219,
\* and on_create has been emitted for the root alone.
EveryMissPanics ==
    /\ \A r \in results : r[2] = Panic
    /\ \A i \in DOMAIN log : log[i][1] = "new" => i = 1

\* Once Drop for Tree has swapped null into the head word it stays null.
HeadStaysNull == [][next_free = NULL_PTR => next_free' = NULL_PTR]_vars

(***************************************************************************)
(* Counting handles and events                                             *)
(***************************************************************************)
RECURSIVE SumHandles(_)
SumHandles(S) ==
    IF S = {} THEN 0
    ELSE LET t == CHOOSE x \in S : TRUE IN handles[t] + SumHandles(S \ {t})

\* Node handles to the root owned by the threads.
ExternalHandles == SumHandles(Threads)

\* The handle in the Tree's `root` field, until Drop for Tree drops it.
TreeHandle == IF tree = "dropped" THEN 0 ELSE 1

\* The entries of a child map; each child holds one handle to its parent
\* (`self.clone()`, core.rs:223).
MapSize(m) ==
    CASE m[1] = "Empty" -> 0
      [] m[1] = "One" -> 1
      [] OTHER -> Cardinality(DOMAIN m[2])

Events(kind) == {i \in DOMAIN log : log[i][1] = kind}
Count(kind, id) == Cardinality({i \in DOMAIN log : log[i] = <<kind, id>>})

\* Every call has returned, no thread owns a handle and the tree is dropped.
AllDropped == Quiescent /\ tree = "dropped" /\ ExternalHandles = 0

(***************************************************************************)
(* C2.  ensure_child(value) returns a handle to the child of the parent    *)
(* whose key is key(value): when a call is back in its caller, the caller  *)
(* has a handle to a record and the parent's map holds that record under   *)
(* key(value).  The code panics on the root instead (core.rs:219).         *)
(***************************************************************************)
C2_EnsureChildReturnsChild ==
    \A t \in Threads :
        (pc[t] = "return" /\ op[t] = "ensure_child") =>
            /\ ret[t] # Panic
            /\ MapGet(children, Key(arg[t])) = ret[t]

(***************************************************************************)
(* C5.  No leak: once every external handle is dropped, gc() has been      *)
(* called and the tree is dropped, there are as many on_create as          *)
(* on_destroy events, every record that was created is destroyed and       *)
(* freed, and in no state has a record been destroyed twice.               *)
(***************************************************************************)
C5_NoLeak ==
    /\ (AllDropped /\ gcDone) =>
          /\ Cardinality(Events("new")) = Cardinality(Events("drop"))
          /\ \A i \in Events("new") : Count("drop", log[i][2]) = 1
          /\ ~allocated
    /\ \A i \in DOMAIN log : Count("drop", log[i][2]) <= 1

\* ensure_child and gc() have been called, handles were owned and dropped,
\* the tree is dropped and the root has been destroyed.
C5_Witness ==
    /\ AllDropped
    /\ gcDone
    /\ results # {}
    /\ ~allocated
    /\ log = << <<"new", "root">>, <<"drop", "root">> >>

(***************************************************************************)
(* C8.  maybe_gc() enters the swap-and-drain of gc() (ptr = DANGLING)      *)
(* exactly when free_count > GC_COUNT_THRESHOLD at its check; at or below  *)
(* the threshold no step of the call changes the head word, the            *)
(* refcount, free_count, the children map or the record, and the call      *)
(* returns without entering swap_free_list_and_gc.                         *)
(***************************************************************************)
C8_MaybeGcThreshold ==
    [][\A t \in Threads :
          ((pc'[t] # pc[t] \/ op'[t] # op[t])
              /\ (op[t] = "maybe_gc" \/ op'[t] = "maybe_gc")) =>
             IF free_count > GC_COUNT_THRESHOLD
             THEN pc[t] = "maybe_gc" =>
                     (pc'[t] = "swap_load" /\ ptr'[t] = DANGLING_PTR)
             ELSE /\ pc'[t] \in {"maybe_gc", "return", "idle"}
                  /\ UNCHANGED <<allocated, children, refcount, next_free,
                                 free_count>>
      ]_vars

\* A maybe_gc() call has returned, with handles to the root around.
C8_Witness ==
    \E t \in Threads :
        /\ pc[t] = "return"
        /\ op[t] = "maybe_gc"
        /\ free_count <= GC_COUNT_THRESHOLD
        /\ ExternalHandles > 0

(***************************************************************************)
(* C10. Handle discipline: in every quiescent state the refcount of an     *)
(* allocated record is the number of live owning handles to it: the        *)
(* external handles, the tree's root handle and one per child in its map,  *)
(* plus one if it is linked on the free list (the root, the only record,   *)
(* never is).  In every state a record that is freed or has refcount 0     *)
(* has no live external handle.                                            *)
(***************************************************************************)
C10_HandleDiscipline ==
    /\ (Quiescent /\ allocated) =>
          refcount = ExternalHandles + TreeHandle + MapSize(children)
    /\ (~allocated \/ refcount = 0) => ExternalHandles = 0

\* The tree is gone and every thread still owns a handle to the root.
C10_Witness ==
    /\ Quiescent
    /\ allocated
    /\ tree = "dropped"
    /\ \A t \in Threads : handles[t] > 0
    /\ refcount = ExternalHandles

\* get_or_insert_with on One with another key: the call that map.rs:69 ends.
Promotes(t) ==
    /\ op[t] = "get_or_insert_with"
    /\ arg[t].before[1] = "One"
    /\ arg[t].key # KeyOf(arg[t].before[2])

\* Apart from that call, every call whose closures do not panic leaves the
\* contents a finite map would hold; a get leaves the map as it is.
MapContentsElsewhere ==
    \A t \in MapCalls :
        (arg[t].kfv = Ok /\ arg[t].eq = Ok /\ arg[t].nv # Panic /\ ~Promotes(t)) =>
            LET f == Contents(arg[t].before)
                after == Contents(ret[t].map)
            IN  CASE op[t] = "get" -> ret[t].map = arg[t].before
                  [] op[t] = "get_or_insert_with" ->
                        SameContents(after,
                            AbsGetOrInsertWith(f, arg[t].key, arg[t].nv).map)
                  [] OTHER -> SameContents(after, AbsRemove(f, arg[t].key).map)

\* A call that panics leaves the contents as they were unless the map was One.
PanicKeepsContentsUnlessOne ==
    \A t \in MapCalls :
        (ret[t].ret = Panic /\ arg[t].before[1] # "One") =>
            ret[t].map = arg[t].before

(***************************************************************************)
(* C21. The adaptive child map refines a finite map from keys to values:   *)
(* every get, get_or_insert_with and remove whose closures do not panic    *)
(* returns what the finite map returns, calls new_value exactly when the   *)
(* finite map does, and leaves a map that represents what the finite map   *)
(* holds afterwards; in particular get_or_insert_with on One with another  *)
(* key completes and returns the new entry.  On the code that call         *)
(* panics (map.rs:69).                                                     *)
(***************************************************************************)
C21_MapRefinesFiniteMap ==
    \A t \in MapCalls :
        (arg[t].kfv = Ok /\ arg[t].eq = Ok /\ arg[t].nv # Panic) =>
            LET f == Contents(arg[t].before)
                key == arg[t].key
                after == Contents(ret[t].map)
            IN  CASE op[t] = "get" ->
                        /\ ret[t].ret = AbsGet(f, key)
                        /\ SameContents(after, f)
                  [] op[t] = "get_or_insert_with" ->
                        LET a == AbsGetOrInsertWith(f, key, arg[t].nv)
                        IN  /\ ret[t].ret = a.ret
                            /\ ret[t].made = a.made
                            /\ SameContents(after, a.map)
                  [] OTHER ->
                        LET a == AbsRemove(f, key)
                        IN  /\ ret[t].ret = a.ret
                            /\ SameContents(after, a.map)

(***************************************************************************)
(* C22. Panic safety of the child map: when key_from_value, the key        *)
(* equality test or new_value panics during get_or_insert_with, the map    *)
(* represents the same contents after the call as before it.  On the code  *)
(* a panic of key_from_value or of `==` in state One loses the child       *)
(* (map.rs:50-57).                                                         *)
(***************************************************************************)
C22_PanicKeepsContents ==
    \A t \in MapCalls :
        (/\ op[t] = "get_or_insert_with"
         /\ ret[t].ret = Panic
         /\ (arg[t].kfv = Panic \/ arg[t].eq = Panic \/ arg[t].nv = Panic)) =>
            SameContents(Contents(ret[t].map), Contents(arg[t].before))

(***************************************************************************)
(* C23. Forward progress: under fair scheduling no thread inside a call    *)
(* is ever unable to step, the free-list lock bit is never left set, and   *)
(* every started operation eventually returns to its caller: an            *)
(* ensure_child call comes back with a handle, every other call ends.  On  *)
(* the code ensure_child on the root never returns: it unwinds.            *)
(***************************************************************************)
C23_ForwardProgress ==
    /\ [](NoDeadlock /\ (Quiescent => Unmask(next_free) = next_free))
    /\ \A t \in Threads :
          /\ (op[t] = "ensure_child") ~> (pc[t] = "return" /\ ret[t] # Panic)
          /\ (~Idle(t) /\ op[t] # "ensure_child") ~> Idle(t)
====
